---- MODULE Spec2Model ----
(***************************************************************************)
(* Entity (src/kcpServer/game/entity/index.ts): the life-state machine     *)
(* (init, initNew, kill, revive, the Death handler) and the authority      *)
(* assignment (updateAuthorityPeer) of one entity.                         *)
(*                                                                         *)
(* Numbers.  Combat stats are JavaScript doubles.  Current HP is kept in   *)
(* tenths of a point: 10*h stands for the integer h, and 4*m stands for    *)
(* the double m * 0.4.  For an integer m that double is the integer 2m/5   *)
(* when 5 divides m, and otherwise a non-integer within one ulp of 4m/10,  *)
(* so a tenths value is a whole number of points exactly when 10 divides   *)
(* it.                                                                     *)
(***************************************************************************)
EXTENDS Integers, Sequences, FiniteSets, TLC

\* ---------------------------------------------------------------- bounds
MaxCalls    == 3   \* calls of init / initNew / kill / revive / the setters in one behaviour
MaxHpBound  == 3   \* FIGHT_PROP_MAX_HP ranges over 0..MaxHpBound
MaxVal      == 4   \* revive(val): val ranges over -MaxNeg..MaxVal
MaxNeg      == 1
MaxAttacker == 2   \* attacker ids 1..MaxAttacker
MaxDieType  == 2   \* die types 1..MaxDieType besides PLAYER_DIE_NONE
MaxPeers    == 2   \* peer ids 1..MaxPeers
MaxAuthCalls == 2  \* calls of updateAuthorityPeer in one behaviour
MaxData     == 1   \* store contents 0..MaxData
MaxTime     == 1   \* motionInfo.sceneTime and reliableSeq range over 0..MaxTime
MaxProp     == 1   \* values written through level / exp / promoteLevel: 0..MaxProp

\* ------------------------------------------------------- program constants
\* Members of LifeStateEnum, PlayerDieTypeEnum and ProtEntityTypeEnum, with the
\* numbers the protocol gives them.
LIFE_ALIVE  == 1
LIFE_DEAD   == 2
PLAYER_DIE_NONE == 0
PROT_ENTITY_AVATAR  == 1
PROT_ENTITY_MONSTER == 2
PROT_ENTITY_NPC     == 3
PROT_ENTITY_GADGET  == 4

\* JavaScript's undefined and null, as numbers outside every other range
Undefined == 0 - 2
Null      == 0 - 1
\* The props as props.initNew(level) leaves them: a content no persisted
\* record below stands for
FreshProps == 0 - 3

Tasks       == {1, 2}          \* concurrent asynchronous calls on the entity
PeerIds     == 1..MaxPeers
AttackerIds == 1..MaxAttacker
DieTypes    == 1..MaxDieType
RevVals     == (0 - MaxNeg)..MaxVal
\* revive() with no argument, and revive(val) for each val
ReviveArgs  == {[given |-> FALSE, v |-> 0]} \cup {[given |-> TRUE, v |-> x] : x \in RevVals}
\* userData.lifeState: absent, or a number (0 is neither Alive nor Dead)
UserLifeStates == {Undefined} \cup 0..LIFE_DEAD
\* Store contents (snapshots of the props and of the combat stats), as tokens
Data == 0..MaxData
\* The keys of the props store the entity writes, and the values written
PropKeys == {"PROP_LEVEL", "PROP_EXP", "PROP_BREAK_LEVEL"}
PropValues == 0..MaxProp
\* No key written since the props were populated
NoSet == [k \in PropKeys |-> Undefined]
\* The props holding the content d, with nothing written since
Stored(d) == [base |-> d, set |-> NoSet]
\* Persisted records handed to init
UserDatas == [lifeState : UserLifeStates, propsData : {Stored(d) : d \in Data},
              fightPropsData : Data]
\* Those among them that differ in lifeState alone
LifeUserDatas == {ud \in UserDatas : ud.propsData = Stored(0) /\ ud.fightPropsData = 0}
EntityTypes == {PROT_ENTITY_AVATAR, PROT_ENTITY_MONSTER, PROT_ENTITY_NPC, PROT_ENTITY_GADGET}

VARIABLES
    entityType,       \* Entity.entityType
    manager,          \* TRUE iff Entity.manager is set
    lifeState,        \* Entity.lifeState
    dieType,          \* Entity.dieType
    attackerId,       \* Entity.attackerId
    authorityPeerId,  \* Entity.authorityPeerId
    maxHp,            \* fightProps.get(FIGHT_PROP_MAX_HP)
    curHp,            \* last value handed to fightProps.set(FIGHT_PROP_CUR_HP, ..), in tenths
    propsStore,       \* what the props store holds: the data last handed to it (base)
                      \* and the value last written to each key since (set)
    fightStore,       \* what the combat-stat store holds: the data last handed to it
    sceneTime,        \* motionInfo.sceneTime
    reliableSeq,      \* motionInfo.reliableSeq
    playerList,       \* manager.scene.playerList: connected peers, in order
    loaded,           \* peers whose loadedEntityIdList includes entityId
    noAuthority,      \* peers flagged noAuthority
    pc,               \* position of each asynchronous call
    hd,               \* position of the Death handling each kill is awaiting
    initLog,          \* the steps each running init / initNew has taken, in order
    deathEvents,      \* Death events raised
    reviveEvents,     \* Revive events raised
    notifies,         \* LifeStateChange broadcasts dispatched
    delivered,        \* LifeStateChange broadcasts whose completion handleDeath has awaited
    removes,          \* manager.remove(this, VISION_DIE) requests
    deathSeen,        \* the fields as the Death handling found them when raised
    calls,            \* calls made on the entity
    authCalls,        \* updateAuthorityPeer calls made
    last              \* the last operation, its arguments, and the state before it

entityVars == <<entityType, manager, lifeState, dieType, attackerId, authorityPeerId>>
compVars   == <<propsStore, fightStore, sceneTime, reliableSeq>>
storeVars  == <<maxHp, curHp, compVars>>
sceneVars  == <<playerList, loaded, noAuthority>>
taskVars   == <<pc, hd, initLog>>
eventVars  == <<deathEvents, reviveEvents, notifies, delivered, removes, deathSeen>>
vars == <<entityVars, storeVars, sceneVars, taskVars, eventVars, calls, authCalls, last>>

Min(a, b) == IF a < b THEN a ELSE b
Max(a, b) == IF a > b THEN a ELSE b

\* The fields and counters an operation may change, as they are before it.
Snapshot ==
    [lifeState |-> lifeState, dieType |-> dieType, attackerId |-> attackerId,
     curHp |-> curHp, authorityPeerId |-> authorityPeerId,
     deathEvents |-> deathEvents, reviveEvents |-> reviveEvents,
     notifies |-> notifies, removes |-> removes,
     propsStore |-> propsStore, fightStore |-> fightStore, initLog |-> initLog]

NoArgs == [a |-> Null, d |-> Null, given |-> FALSE, v |-> 0]

Op(name, t, args, ret) ==
    [op |-> name, task |-> t, args |-> args, pre |-> Snapshot, ret |-> ret]

\* ------------------------------------------------------------- predicates
isAlive(ls) == ls = LIFE_ALIVE
isDead(ls)  == ls = LIFE_DEAD

\* ------------------------------------------------------------ init, initNew
\* init: the restored lifeState when it is a number, LIFE_ALIVE otherwise.
InitLifeState(ls) == IF ls # Undefined THEN ls ELSE LIFE_ALIVE

\* init hands userData.propsData to props.init and userData.fightPropsData to
\* fightProps.init.
InitStoresDropsWrites(ud) ==
    [props |-> Stored(ud.propsData.base), fight |-> ud.fightPropsData]
InitStores(ud) == [props |-> ud.propsData, fight |-> ud.fightPropsData]

\* init(userData), up to its first await: the props are populated and
\* abilityList.update() is called.
InitCall(t, ud) ==
    /\ pc[t] = "idle"
    /\ calls < MaxCalls
    /\ calls' = calls + 1
    /\ lifeState' = InitLifeState(ud.lifeState)
    /\ propsStore' = InitStores(ud).props
    /\ fightStore' = InitStores(ud).fight
    /\ pc' = [pc EXCEPT ![t] = "init_ability"]
    /\ initLog' = [initLog EXCEPT ![t] = <<"props", "ability">>]
    /\ last' = Op("init", t, [NoArgs EXCEPT !.v = ud.lifeState], FALSE)
    /\ UNCHANGED <<entityType, manager, dieType, attackerId, authorityPeerId,
                   maxHp, curHp, sceneTime, reliableSeq, sceneVars, hd, eventVars,
                   authCalls>>

\* initNew(level), up to its first await: props.initNew(level) populates the
\* props afresh and abilityList.update() is called.
InitNewCall(t) ==
    /\ pc[t] = "idle"
    /\ calls < MaxCalls
    /\ calls' = calls + 1
    /\ lifeState' = LIFE_ALIVE
    /\ propsStore' = Stored(FreshProps)
    /\ pc' = [pc EXCEPT ![t] = "init_ability"]
    /\ initLog' = [initLog EXCEPT ![t] = <<"props", "ability">>]
    /\ last' = Op("initNew", t, NoArgs, FALSE)
    /\ UNCHANGED <<entityType, manager, dieType, attackerId, authorityPeerId,
                   maxHp, curHp, fightStore, sceneTime, reliableSeq, sceneVars, hd,
                   eventVars, authCalls>>

\* abilityList.update() completes; fightProps.update() is called.
AbilityUpdateDone(t) ==
    /\ pc[t] = "init_ability"
    /\ pc' = [pc EXCEPT ![t] = "init_fight"]
    /\ initLog' = [initLog EXCEPT ![t] = initLog[t] \o <<"abilityDone", "fight">>]
    /\ last' = Op("abilityUpdated", t, NoArgs, FALSE)
    /\ UNCHANGED <<entityVars, storeVars, sceneVars, hd, eventVars, calls, authCalls>>

\* abilityList.update() rejects: init / initNew rejects, nothing else runs.
AbilityUpdateFailSwallowed(t) ==
    /\ pc[t] = "init_ability"
    /\ pc' = [pc EXCEPT ![t] = "init_fight"]
    /\ initLog' = [initLog EXCEPT ![t] = initLog[t] \o <<"fight">>]
    /\ last' = Op("abilityFailed", t, NoArgs, FALSE)
    /\ UNCHANGED <<entityVars, storeVars, sceneVars, hd, eventVars, calls, authCalls>>
AbilityUpdateFail(t) ==
    /\ pc[t] = "init_ability"
    /\ pc' = [pc EXCEPT ![t] = "idle"]
    /\ initLog' = [initLog EXCEPT ![t] = <<>>]
    /\ last' = Op("initFailed", t, NoArgs, FALSE)
    /\ UNCHANGED <<entityVars, storeVars, sceneVars, hd, eventVars, calls, authCalls>>

\* fightProps.update() completes; init / initNew completes.
FightUpdateDone(t) ==
    /\ pc[t] = "init_fight"
    /\ pc' = [pc EXCEPT ![t] = "idle"]
    /\ initLog' = [initLog EXCEPT ![t] = <<>>]
    /\ last' = Op("initDone", t, NoArgs, FALSE)
    /\ UNCHANGED <<entityVars, storeVars, sceneVars, hd, eventVars, calls, authCalls>>

\* fightProps.update() rejects: init / initNew rejects.
FightUpdateFail(t) ==
    /\ pc[t] = "init_fight"
    /\ pc' = [pc EXCEPT ![t] = "idle"]
    /\ initLog' = [initLog EXCEPT ![t] = <<>>]
    /\ last' = Op("initFailedFight", t, NoArgs, FALSE)
    /\ UNCHANGED <<entityVars, storeVars, sceneVars, hd, eventVars, calls, authCalls>>

\* ------------------------------------------------- level, exp, promoteLevel
\* props.set(key, v): the store holds v under key.
PropsSet(key, v) == [propsStore EXCEPT !.set[key] = v]

\* set level(v)
SetLevel(v) ==
    /\ calls < MaxCalls
    /\ calls' = calls + 1
    /\ propsStore' = PropsSet("PROP_LEVEL", v)
    /\ last' = Op("setLevel", 0, [NoArgs EXCEPT !.v = v], FALSE)
    /\ UNCHANGED <<entityVars, maxHp, curHp, fightStore, sceneTime, reliableSeq,
                   sceneVars, taskVars, eventVars, authCalls>>

\* set exp(v)
SetExp(v) ==
    /\ calls < MaxCalls
    /\ calls' = calls + 1
    /\ propsStore' = PropsSet("PROP_EXP", v)
    /\ last' = Op("setExp", 0, [NoArgs EXCEPT !.v = v], FALSE)
    /\ UNCHANGED <<entityVars, maxHp, curHp, fightStore, sceneTime, reliableSeq,
                   sceneVars, taskVars, eventVars, authCalls>>

\* set promoteLevel(v)
SetPromoteLevel(v) ==
    /\ calls < MaxCalls
    /\ calls' = calls + 1
    /\ propsStore' = PropsSet("PROP_BREAK_LEVEL", v)
    /\ last' = Op("setPromoteLevel", 0, [NoArgs EXCEPT !.v = v], FALSE)
    /\ UNCHANGED <<entityVars, maxHp, curHp, fightStore, sceneTime, reliableSeq,
                   sceneVars, taskVars, eventVars, authCalls>>

\* --------------------------------------------------------------------- kill
\* The fields kill writes.
KillFieldsNoAttacker(a, d) ==
    [lifeState |-> LIFE_DEAD, dieType |-> d, attackerId |-> attackerId]
KillFields(a, d) ==
    [lifeState |-> LIFE_DEAD, dieType |-> d, attackerId |-> a]

\* handleDeath up to its first await: with no manager it returns at once,
\* otherwise it dispatches the LifeStateChange broadcast and awaits it.
HandleDeathStartNoAwait(t) ==
    IF manager
    THEN /\ notifies' = notifies + 1
         /\ removes' = removes + 1
         /\ hd' = [hd EXCEPT ![t] = "remove"]
    ELSE /\ notifies' = notifies
         /\ removes' = removes
         /\ hd' = [hd EXCEPT ![t] = "done"]
HandleDeathStart(t) ==
    IF manager
    THEN /\ notifies' = notifies + 1
         /\ removes' = removes
         /\ hd' = [hd EXCEPT ![t] = "broadcast"]
    ELSE /\ notifies' = notifies
         /\ removes' = removes
         /\ hd' = [hd EXCEPT ![t] = "done"]

\* emit('Death'): the event is raised and its handling starts, seeing the
\* fields as they are at that moment.
EmitDeath(t, seen) ==
    /\ deathEvents' = deathEvents + 1
    /\ deathSeen' = seen
    /\ HandleDeathStart(t)

\* kill(attackerId, dieType), up to its first suspension.
KillCallAlwaysEmits(t, a, d) ==
    /\ pc[t] = "idle"
    /\ calls < MaxCalls
    /\ calls' = calls + 1
    /\ last' = Op("kill", t, [NoArgs EXCEPT !.a = a, !.d = d], FALSE)
    /\ IF ~isAlive(lifeState)
       THEN /\ EmitDeath(t, [lifeState |-> lifeState, dieType |-> dieType,
                             attackerId |-> attackerId])
            /\ pc' = [pc EXCEPT ![t] = "kill_await"]
            /\ UNCHANGED <<entityVars, storeVars, sceneVars, initLog, reviveEvents,
                           delivered, authCalls>>
       ELSE /\ lifeState' = KillFields(a, d).lifeState
            /\ dieType' = KillFields(a, d).dieType
            /\ attackerId' = KillFields(a, d).attackerId
            /\ EmitDeath(t, KillFields(a, d))
            /\ pc' = [pc EXCEPT ![t] = "kill_await"]
            /\ UNCHANGED <<entityType, manager, authorityPeerId, storeVars, sceneVars,
                           initLog, reviveEvents, delivered, authCalls>>
KillCallNoGuard(t, a, d) ==
    /\ pc[t] = "idle"
    /\ calls < MaxCalls
    /\ calls' = calls + 1
    /\ last' = Op("kill", t, [NoArgs EXCEPT !.a = a, !.d = d], FALSE)
    /\ lifeState' = KillFields(a, d).lifeState
    /\ dieType' = KillFields(a, d).dieType
    /\ attackerId' = KillFields(a, d).attackerId
    /\ EmitDeath(t, KillFields(a, d))
    /\ pc' = [pc EXCEPT ![t] = "kill_await"]
    /\ UNCHANGED <<entityType, manager, authorityPeerId, storeVars, sceneVars,
                   initLog, reviveEvents, delivered, authCalls>>
KillCall(t, a, d) ==
    /\ pc[t] = "idle"
    /\ calls < MaxCalls
    /\ calls' = calls + 1
    /\ last' = Op("kill", t, [NoArgs EXCEPT !.a = a, !.d = d], FALSE)
    /\ IF ~isAlive(lifeState)
       THEN UNCHANGED <<entityVars, storeVars, sceneVars, taskVars, eventVars, authCalls>>
       ELSE /\ lifeState' = KillFields(a, d).lifeState
            /\ dieType' = KillFields(a, d).dieType
            /\ attackerId' = KillFields(a, d).attackerId
            /\ EmitDeath(t, KillFields(a, d))
            /\ pc' = [pc EXCEPT ![t] = "kill_await"]
            /\ UNCHANGED <<entityType, manager, authorityPeerId, storeVars, sceneVars,
                           initLog, reviveEvents, delivered, authCalls>>

\* The broadcast completes; handleDeath requests the removal and awaits it.
DeathBroadcastDone(t) ==
    /\ hd[t] = "broadcast"
    /\ delivered' = delivered + 1
    /\ removes' = removes + 1
    /\ hd' = [hd EXCEPT ![t] = "remove"]
    /\ last' = Op("deathBroadcastDone", t, NoArgs, FALSE)
    /\ UNCHANGED <<entityVars, storeVars, sceneVars, pc, initLog, deathEvents,
                   reviveEvents, notifies, deathSeen, calls, authCalls>>

\* manager.remove completes; handleDeath returns.
DeathRemoveDone(t) ==
    /\ hd[t] = "remove"
    /\ hd' = [hd EXCEPT ![t] = "done"]
    /\ last' = Op("deathRemoveDone", t, NoArgs, FALSE)
    /\ UNCHANGED <<entityVars, storeVars, sceneVars, pc, initLog, eventVars, calls,
                   authCalls>>

\* The awaited emit('Death') has settled; kill returns.
KillReturn(t) ==
    /\ pc[t] = "kill_await"
    /\ hd[t] = "done"
    /\ pc' = [pc EXCEPT ![t] = "idle"]
    /\ hd' = [hd EXCEPT ![t] = "none"]
    /\ last' = Op("killReturn", t, NoArgs, FALSE)
    /\ UNCHANGED <<entityVars, storeVars, sceneVars, initLog, eventVars, calls, authCalls>>

\* ------------------------------------------------------------------- revive
\* The value revive hands to fightProps.set(FIGHT_PROP_CUR_HP, ..), in tenths.
ReviveHpRounded(given, v, m) ==
    IF given THEN 10 * Min(m, Max(1, v)) ELSE 10 * ((4 * m + 5) \div 10)
ReviveHpNoFloor(given, v, m) ==
    IF given THEN 10 * Min(m, v) ELSE 4 * m
ReviveHp(given, v, m) ==
    IF given THEN 10 * Min(m, Max(1, v)) ELSE 4 * m

\* revive(val), up to its first await (fightProps.set).
ReviveCallNoGuard(t, given, v) ==
    /\ pc[t] = "idle"
    /\ calls < MaxCalls
    /\ calls' = calls + 1
    /\ last' = Op("revive", t, [NoArgs EXCEPT !.given = given, !.v = v], FALSE)
    /\ lifeState' = LIFE_ALIVE
    /\ dieType' = PLAYER_DIE_NONE
    /\ attackerId' = Null
    /\ curHp' = ReviveHp(given, v, maxHp)
    /\ pc' = [pc EXCEPT ![t] = "revive_set"]
    /\ UNCHANGED <<entityType, manager, authorityPeerId, maxHp, compVars, sceneVars,
                   hd, initLog, eventVars, authCalls>>
ReviveCall(t, given, v) ==
    /\ pc[t] = "idle"
    /\ calls < MaxCalls
    /\ calls' = calls + 1
    /\ last' = Op("revive", t, [NoArgs EXCEPT !.given = given, !.v = v], FALSE)
    /\ IF isAlive(lifeState)
       THEN UNCHANGED <<entityVars, storeVars, sceneVars, taskVars, eventVars, authCalls>>
       ELSE /\ lifeState' = LIFE_ALIVE
            /\ dieType' = PLAYER_DIE_NONE
            /\ attackerId' = Null
            /\ curHp' = ReviveHp(given, v, maxHp)
            /\ pc' = [pc EXCEPT ![t] = "revive_set"]
            /\ UNCHANGED <<entityType, manager, authorityPeerId, maxHp, compVars,
                           sceneVars, hd, initLog, eventVars, authCalls>>

\* fightProps.set completes; revive raises the Revive event and awaits it.
ReviveSetDone(t) ==
    /\ pc[t] = "revive_set"
    /\ reviveEvents' = reviveEvents + 1
    /\ pc' = [pc EXCEPT ![t] = "revive_emit"]
    /\ last' = Op("reviveSetDone", t, NoArgs, FALSE)
    /\ UNCHANGED <<entityVars, storeVars, sceneVars, hd, initLog, deathEvents, notifies,
                   delivered, removes, deathSeen, calls, authCalls>>

\* The awaited emit('Revive') has settled; revive returns.
ReviveReturn(t) ==
    /\ pc[t] = "revive_emit"
    /\ pc' = [pc EXCEPT ![t] = "idle"]
    /\ last' = Op("reviveReturn", t, NoArgs, FALSE)
    /\ UNCHANGED <<entityVars, storeVars, sceneVars, hd, initLog, eventVars, calls,
                   authCalls>>

\* -------------------------------------------------------- authority peer
Range(list) == {list[i] : i \in 1..Len(list)}

\* manager?.scene.playerList: undefined (no player to find) without a manager.
ScenePlayers == IF manager THEN playerList ELSE <<>>

\* world?.getPeer(id)?.loadedEntityIdList?.includes(entityId): the peer is
\* connected and has the entity loaded.
PeerHasLoaded(id) == manager /\ id \in Range(playerList) /\ id \in loaded

\* playerList?.find(player => !player.noAuthority &&
\*   player.loadedEntityIdList.includes(entityId))?.peerId; Undefined when
\* there is none.
FindPeerLast(list, na, ld) ==
    LET hits == {i \in 1..Len(list) : list[i] \notin na /\ list[i] \in ld}
    IN  IF hits = {} THEN Undefined
        ELSE list[CHOOSE i \in hits : \A j \in hits : i >= j]
FindPeer(list, na, ld) ==
    LET hits == {i \in 1..Len(list) : list[i] \notin na /\ list[i] \in ld}
    IN  IF hits = {} THEN Undefined
        ELSE list[CHOOSE i \in hits : \A j \in hits : i <= j]

\* updateAuthorityPeer(): the value of authorityPeerId it leaves and the
\* value it returns.
AuthorityStepReturnAssigned(auth) ==
    IF entityType # PROT_ENTITY_MONSTER \/ PeerHasLoaded(auth)
    THEN [auth |-> auth, ret |-> FALSE]
    ELSE LET peerId == FindPeer(ScenePlayers, noAuthority, loaded)
         IN  IF peerId = Undefined
             THEN [auth |-> auth, ret |-> FALSE]
             ELSE [auth |-> peerId, ret |-> TRUE]
AuthorityStepKeepsNull(auth) ==
    IF entityType # PROT_ENTITY_MONSTER \/ PeerHasLoaded(auth) \/ auth = Null
    THEN [auth |-> auth, ret |-> FALSE]
    ELSE LET peerId == FindPeer(ScenePlayers, noAuthority, loaded)
         IN  IF peerId = Undefined
             THEN [auth |-> auth, ret |-> FALSE]
             ELSE [auth |-> peerId, ret |-> auth # Null]
AuthorityStepAnyType(auth) ==
    IF PeerHasLoaded(auth)
    THEN [auth |-> auth, ret |-> FALSE]
    ELSE LET peerId == FindPeer(ScenePlayers, noAuthority, loaded)
         IN  IF peerId = Undefined
             THEN [auth |-> auth, ret |-> FALSE]
             ELSE [auth |-> peerId, ret |-> auth # Null]
AuthorityStepAlwaysRescan(auth) ==
    IF entityType # PROT_ENTITY_MONSTER
    THEN [auth |-> auth, ret |-> FALSE]
    ELSE LET peerId == FindPeer(ScenePlayers, noAuthority, loaded)
         IN  IF peerId = Undefined
             THEN [auth |-> auth, ret |-> FALSE]
             ELSE [auth |-> peerId, ret |-> auth # Null]
AuthorityStep(auth) ==
    IF entityType # PROT_ENTITY_MONSTER \/ PeerHasLoaded(auth)
    THEN [auth |-> auth, ret |-> FALSE]
    ELSE LET peerId == FindPeer(ScenePlayers, noAuthority, loaded)
         IN  IF peerId = Undefined
             THEN [auth |-> auth, ret |-> FALSE]
             ELSE [auth |-> peerId, ret |-> auth # Null]

UpdateAuthorityPeer ==
    /\ authCalls < MaxAuthCalls
    /\ authCalls' = authCalls + 1
    /\ authorityPeerId' = AuthorityStep(authorityPeerId).auth
    /\ last' = Op("updateAuthorityPeer", 0, NoArgs, AuthorityStep(authorityPeerId).ret)
    /\ UNCHANGED <<entityType, manager, lifeState, dieType, attackerId,
                   storeVars, sceneVars, taskVars, eventVars, calls>>

\* The scene, between calls: players connect and disconnect, load and unload
\* the entity, and are flagged or unflagged noAuthority.
SceneStep(list, ld, na) ==
    /\ manager
    /\ playerList' = list
    /\ loaded' = ld
    /\ noAuthority' = na
    /\ last' = Op("scene", 0, NoArgs, FALSE)
    /\ UNCHANGED <<entityVars, storeVars, taskVars, eventVars, calls, authCalls>>

PlayerJoin(p) ==
    /\ p \notin Range(playerList)
    /\ SceneStep(Append(playerList, p), loaded, noAuthority)

PlayerLeave(p) ==
    /\ p \in Range(playerList)
    /\ SceneStep(SelectSeq(playerList, LAMBDA q : q # p), loaded \ {p}, noAuthority \ {p})

EntityLoad(p) ==
    /\ p \in Range(playerList) \ loaded
    /\ SceneStep(playerList, loaded \cup {p}, noAuthority)

EntityUnload(p) ==
    /\ p \in loaded
    /\ SceneStep(playerList, loaded \ {p}, noAuthority)

SetNoAuthority(p) ==
    /\ p \in Range(playerList) \ noAuthority
    /\ SceneStep(playerList, loaded, noAuthority \cup {p})

ClearNoAuthority(p) ==
    /\ p \in noAuthority
    /\ SceneStep(playerList, loaded, noAuthority \ {p})

\* ------------------------------------------------------------------ exports
IsNullish(x) == x = Null \/ x = Undefined

\* exportEntityAuthorityInfo(): the sub-fields of the authority block.
ExportEntityAuthorityInfo ==
    [keys |-> {"abilityInfo", "rendererChangedInfo", "aiInfo", "bornPos", "unknown1"},
     isAiOpen |-> TRUE]

\* The last-move fields exportSceneEntityInfo adds: each when its value on the
\* motion tracker is neither null nor undefined.
MoveKeysTruthy(st, seq) ==
    (IF ~IsNullish(st) /\ st # 0 THEN {"lastMoveSceneTimeMs"} ELSE {})
        \cup (IF ~IsNullish(seq) /\ seq # 0 THEN {"lastMoveReliableSeq"} ELSE {})
MoveKeys(st, seq) ==
    (IF ~IsNullish(st) THEN {"lastMoveSceneTimeMs"} ELSE {})
        \cup (IF ~IsNullish(seq) THEN {"lastMoveReliableSeq"} ELSE {})

\* The sub-payload field the switch on entityType attaches; none when no case
\* matches.
PayloadKeysFallThrough(type) ==
    IF type = PROT_ENTITY_AVATAR THEN {"avatar", "monster"}
    ELSE IF type = PROT_ENTITY_MONSTER THEN {"monster"}
    ELSE IF type = PROT_ENTITY_NPC THEN {"npc"}
    ELSE IF type = PROT_ENTITY_GADGET THEN {"gadget"}
    ELSE {}
PayloadKeys(type) ==
    IF type = PROT_ENTITY_AVATAR THEN {"avatar"}
    ELSE IF type = PROT_ENTITY_MONSTER THEN {"monster"}
    ELSE IF type = PROT_ENTITY_NPC THEN {"npc"}
    ELSE IF type = PROT_ENTITY_GADGET THEN {"gadget"}
    ELSE {}

\* What the NPC case does to the snapshot besides attaching its sub-payload:
\* it empties propList, deletes lifeState and deletes abilityInfo from the
\* authority block.
VariantShapeNpcKeepsAbility(type, info) ==
    IF type = PROT_ENTITY_NPC
    THEN [info EXCEPT !.propList = <<>>,
                      !.keys = @ \ {"lifeState"},
                      !.lifeState = Undefined]
    ELSE info
VariantShape(type, info) ==
    IF type = PROT_ENTITY_NPC
    THEN [info EXCEPT !.propList = <<>>,
                      !.keys = @ \ {"lifeState"},
                      !.lifeState = Undefined,
                      !.authority = [@ EXCEPT !.keys = @ \ {"abilityInfo"}]]
    ELSE info

\* exportSceneEntityInfo(): the fields of the snapshot (keys), and the values
\* of those the entity decides.
ExportSceneEntityInfo ==
    LET info == [entityType |-> entityType,
                 keys |-> {"entityType", "entityId", "motionInfo", "propList",
                           "fightPropList", "lifeState", "animatorParaList",
                           "entityClientData", "entityAuthorityInfo"}
                              \cup MoveKeys(sceneTime, reliableSeq),
                 propList |-> <<"PROP_LEVEL">>,
                 lifeState |-> lifeState,
                 lastMoveSceneTimeMs |-> IF IsNullish(sceneTime) THEN Undefined ELSE sceneTime,
                 lastMoveReliableSeq |-> IF IsNullish(reliableSeq) THEN Undefined ELSE reliableSeq,
                 authority |-> ExportEntityAuthorityInfo]
        shaped == VariantShape(entityType, info)
    IN  [shaped EXCEPT !.keys = @ \cup PayloadKeys(entityType)]

ExportSceneEntityInfoCall ==
    /\ calls < MaxCalls
    /\ calls' = calls + 1
    /\ last' = Op("exportSceneEntityInfo", 0, NoArgs, ExportSceneEntityInfo)
    /\ UNCHANGED <<entityVars, storeVars, sceneVars, taskVars, eventVars, authCalls>>

\* exportUserData(): lifeState and the snapshots of the two stores.
ExportUserData ==
    [lifeState |-> lifeState, propsData |-> propsStore, fightPropsData |-> fightStore]

ExportUserDataCall ==
    /\ calls < MaxCalls
    /\ calls' = calls + 1
    /\ last' = Op("exportUserData", 0, NoArgs, ExportUserData)
    /\ UNCHANGED <<entityVars, storeVars, sceneVars, taskVars, eventVars, authCalls>>

\* A fresh entity of the same type takes the place of this one, at rest, and
\* is initialised from this one's exported record: new Entity() followed by
\* init(exportUserData()), up to init's first await.
Restore(t) ==
    /\ \A u \in Tasks : pc[u] = "idle"
    /\ calls < MaxCalls
    /\ calls' = calls + 1
    /\ lifeState' = InitLifeState(ExportUserData.lifeState)
    /\ propsStore' = InitStores(ExportUserData).props
    /\ fightStore' = InitStores(ExportUserData).fight
    /\ dieType' = Undefined
    /\ attackerId' = Undefined
    /\ authorityPeerId' = Null
    /\ curHp' = Undefined
    /\ sceneTime' = Null
    /\ reliableSeq' = Null
    /\ pc' = [pc EXCEPT ![t] = "init_ability"]
    /\ initLog' = [initLog EXCEPT ![t] = <<"props", "ability">>]
    /\ last' = Op("restore", t, [NoArgs EXCEPT !.v = ExportUserData.lifeState], FALSE)
    /\ UNCHANGED <<entityType, manager, maxHp, sceneVars, hd, eventVars, authCalls>>

\* The motion tracker records a move: its time and sequence number.
MotionUpdate(st, seq) ==
    /\ calls < MaxCalls
    /\ calls' = calls + 1
    /\ sceneTime' = st
    /\ reliableSeq' = seq
    /\ last' = Op("motion", 0, NoArgs, FALSE)
    /\ UNCHANGED <<entityVars, maxHp, curHp, propsStore, fightStore, sceneVars,
                   taskVars, eventVars, authCalls>>

\* ------------------------------------------------------------ specification
NoneSeen == [lifeState |-> Undefined, dieType |-> Undefined, attackerId |-> Undefined]

\* The entity as its constructor leaves it, detached or attached to a manager.
Constructed ==
    /\ lifeState = Undefined
    /\ dieType = Undefined
    /\ attackerId = Undefined
    /\ authorityPeerId = Null
    /\ curHp = Undefined
    /\ propsStore = Stored(Undefined)
    /\ fightStore = Undefined
    /\ pc = [t \in Tasks |-> "idle"]
    /\ hd = [t \in Tasks |-> "none"]
    /\ initLog = [t \in Tasks |-> <<>>]
    /\ deathEvents = 0
    /\ reviveEvents = 0
    /\ notifies = 0
    /\ delivered = 0
    /\ removes = 0
    /\ deathSeen = NoneSeen
    /\ calls = 0
    /\ authCalls = 0
    /\ last = [op |-> "new", task |-> 0, args |-> NoArgs,
               pre |-> [lifeState |-> Undefined, dieType |-> Undefined,
                        attackerId |-> Undefined, curHp |-> Undefined,
                        authorityPeerId |-> Null, deathEvents |-> 0, reviveEvents |-> 0,
                        notifies |-> 0, removes |-> 0,
                        propsStore |-> Stored(Undefined), fightStore |-> Undefined,
                        initLog |-> [t \in Tasks |-> <<>>]],
               ret |-> FALSE]

Init ==
    /\ Constructed
    /\ entityType = PROT_ENTITY_MONSTER
    /\ manager \in BOOLEAN
    /\ maxHp \in 0..MaxHpBound
    /\ playerList = <<>>
    /\ loaded = {}
    /\ noAuthority = {}
    /\ sceneTime = Null
    /\ reliableSeq = Null

Next ==
    \/ \E t \in Tasks, ud \in LifeUserDatas : InitCall(t, ud)
    \/ \E t \in Tasks : InitNewCall(t)
    \/ \E t \in Tasks : AbilityUpdateDone(t)
    \/ \E t \in Tasks : AbilityUpdateFail(t)
    \/ \E t \in Tasks : FightUpdateDone(t)
    \/ \E t \in Tasks : FightUpdateFail(t)
    \/ \E t \in Tasks, a \in AttackerIds, d \in DieTypes : KillCall(t, a, d)
    \/ \E t \in Tasks : DeathBroadcastDone(t)
    \/ \E t \in Tasks : DeathRemoveDone(t)
    \/ \E t \in Tasks : KillReturn(t)
    \/ \E t \in Tasks, r \in ReviveArgs : ReviveCall(t, r.given, r.v)
    \/ \E t \in Tasks : ReviveSetDone(t)
    \/ \E t \in Tasks : ReviveReturn(t)

Spec == Init /\ [][Next]_vars

\* Authority assignment: an entity of any type, detached or in a scene whose
\* players come and go.
InitAuth ==
    /\ Constructed
    /\ entityType \in EntityTypes
    /\ manager \in BOOLEAN
    /\ maxHp = 0
    /\ playerList = <<>>
    /\ loaded = {}
    /\ noAuthority = {}
    /\ sceneTime = Null
    /\ reliableSeq = Null

NextAuth ==
    \/ UpdateAuthorityPeer
    \/ \E p \in PeerIds : PlayerJoin(p)
    \/ \E p \in PeerIds : PlayerLeave(p)
    \/ \E p \in PeerIds : EntityLoad(p)
    \/ \E p \in PeerIds : EntityUnload(p)
    \/ \E p \in PeerIds : SetNoAuthority(p)
    \/ \E p \in PeerIds : ClearNoAuthority(p)

SpecAuth == InitAuth /\ [][NextAuth]_vars
\* ==================================================================== claims
Unset(x) == x = Null \/ x = Undefined

\* The fields of the entity equal those recorded before the last operation.
FieldsAsBefore ==
    /\ lifeState = last.pre.lifeState
    /\ dieType = last.pre.dieType
    /\ attackerId = last.pre.attackerId
    /\ curHp = last.pre.curHp
    /\ authorityPeerId = last.pre.authorityPeerId

\* C1: kill on an entity that is already Dead changes no field (lifeState,
\* dieType and attackerId stay those of the first kill), raises no Death
\* event and starts no Death handling.
C1_KillWhileDeadIsNoOp ==
    (last.op = "kill" /\ isDead(last.pre.lifeState)) =>
        /\ FieldsAsBefore
        /\ deathEvents = last.pre.deathEvents
        /\ pc[last.task] = "idle"
        /\ hd[last.task] = "none"

\* A second kill, with an attacker and a die type that both differ from the
\* recorded ones, has been made on a Dead entity.
C1_Witness ==
    /\ last.op = "kill"
    /\ isDead(last.pre.lifeState)
    /\ last.args.a # last.pre.attackerId
    /\ last.args.d # last.pre.dieType
    /\ last.pre.deathEvents = 1

\* C2: revive on an entity that is already Alive changes no field (lifeState,
\* dieType, attackerId, current HP), raises no Revive event and leaves no
\* continuation that would raise one.
C2_ReviveWhileAliveIsNoOp ==
    (last.op = "revive" /\ isAlive(last.pre.lifeState)) =>
        /\ FieldsAsBefore
        /\ reviveEvents = last.pre.reviveEvents
        /\ pc[last.task] = "idle"

\* revive(val) has been called on an Alive entity whose HP differs from the
\* value such a revive would write.
C2_Witness ==
    /\ last.op = "revive"
    /\ isAlive(last.pre.lifeState)
    /\ last.args.given
    /\ curHp # 10 * Min(maxHp, Max(1, last.args.v))

\* C3: kill(a, d) on an Alive entity sets lifeState = Dead, dieType = d and
\* attackerId = a and raises exactly one Death event, whose handling finds the
\* three fields already written; no other step raises a Death event; and a kill
\* whose Death handling has not completed has not returned.
C3_KillRaisesDeathAfterFields ==
    /\ (last.op = "kill" /\ isAlive(last.pre.lifeState)) =>
          /\ lifeState = LIFE_DEAD
          /\ dieType = last.args.d
          /\ attackerId = last.args.a
          /\ deathEvents = last.pre.deathEvents + 1
          /\ deathSeen = [lifeState |-> LIFE_DEAD, dieType |-> last.args.d,
                          attackerId |-> last.args.a]
          /\ pc[last.task] = "kill_await"
    /\ (last.op # "kill") => deathEvents = last.pre.deathEvents
    /\ \A t \in Tasks : hd[t] \in {"broadcast", "remove"} => pc[t] = "kill_await"
    /\ (last.op = "killReturn") => hd[last.task] = "none"

\* A kill of an Alive entity attached to a manager has just raised its Death
\* event and started its handling, which finds the attacker just recorded.
C3_Witness ==
    /\ last.op = "kill"
    /\ isAlive(last.pre.lifeState)
    /\ manager
    /\ Unset(last.pre.attackerId)
    /\ attackerId = MaxAttacker
    /\ dieType = MaxDieType
    /\ deathSeen.attackerId = MaxAttacker
    /\ hd[last.task] = "broadcast"

\* C4 (as amended): revive on a Dead entity sets lifeState = Alive,
\* dieType = none, attackerId = null, and hands fightProps.set the value
\* min(maxHp, max(1, v)) when an argument v is given and 0.4 * maxHp, not
\* rounded, when none is.
C4_ReviveWritesFields ==
    (last.op = "revive" /\ isDead(last.pre.lifeState)) =>
        /\ lifeState = LIFE_ALIVE
        /\ dieType = PLAYER_DIE_NONE
        /\ attackerId = Null
        /\ IF last.args.given
           THEN curHp = 10 * Min(maxHp, Max(1, last.args.v))
           ELSE 10 * curHp = 4 * (10 * maxHp)

\* C4 (as claimed): the same, with round(0.4 * maxHp), an integer, when no
\* argument is given.
C4_AsClaimed ==
    (last.op = "revive" /\ isDead(last.pre.lifeState)) =>
        /\ lifeState = LIFE_ALIVE
        /\ dieType = PLAYER_DIE_NONE
        /\ attackerId = Null
        /\ IF last.args.given
           THEN curHp = 10 * Min(maxHp, Max(1, last.args.v))
           ELSE curHp = 10 * ((4 * maxHp + 5) \div 10)

\* revive() with no argument has revived a Dead entity whose maxHp is not a
\* multiple of 5, leaving a fractional HP.
C4_Witness ==
    /\ last.op = "revive"
    /\ isDead(last.pre.lifeState)
    /\ ~last.args.given
    /\ maxHp > 0
    /\ curHp % 10 # 0

\* C5 (as amended): after revive(targetHp) on a Dead entity with any given
\* targetHp (0 and negative values included) and any maxHp >= 1, the HP
\* written is at least 1; with maxHp below 1 it is maxHp.
C5_ReviveHpAtLeastOne ==
    (last.op = "revive" /\ isDead(last.pre.lifeState) /\ last.args.given) =>
        IF maxHp >= 1 THEN curHp >= 10 ELSE curHp = 10 * maxHp

\* C5 (as claimed): the same for any maxHp.
C5_AsClaimed ==
    (last.op = "revive" /\ isDead(last.pre.lifeState) /\ last.args.given) =>
        curHp >= 10

\* revive(v) with v <= 0 has revived a Dead entity with maxHp >= 1.
C5_Witness ==
    /\ last.op = "revive"
    /\ isDead(last.pre.lifeState)
    /\ last.args.given
    /\ last.args.v <= 0
    /\ maxHp >= 1
    /\ curHp = 10

\* C6 (as claimed): on an initialised entity lifeState changes only from Alive
\* to Dead in kill or from Dead to Alive in revive; every other operation, and
\* kill or revive from any other state, leaves it as it was.
C6_AsClaimed ==
    (last.op \notin {"new", "init", "initNew"} /\ last.pre.lifeState # Undefined) =>
        \/ lifeState = last.pre.lifeState
        \/ /\ last.op = "kill"
           /\ last.pre.lifeState = LIFE_ALIVE
           /\ lifeState = LIFE_DEAD
        \/ /\ last.op = "revive"
           /\ last.pre.lifeState = LIFE_DEAD
           /\ lifeState = LIFE_ALIVE

\* C7 (as claimed): an entity whose lifeState is Alive has attackerId unset.
C7_AsClaimed ==
    isAlive(lifeState) => Unset(attackerId)

\* No player of the scene is eligible: each is flagged noAuthority or has not
\* loaded the entity.
NoEligiblePlayer ==
    \A i \in 1..Len(ScenePlayers) :
        ScenePlayers[i] \in noAuthority \/ ScenePlayers[i] \notin loaded

\* The peer is connected to the scene and has the entity loaded.
ConnectedAndLoaded(id) ==
    /\ manager
    /\ \E i \in 1..Len(playerList) : playerList[i] = id
    /\ id \in loaded

AfterUpdateOnMonster ==
    last.op = "updateAuthorityPeer" /\ entityType = PROT_ENTITY_MONSTER

\* C8 (as claimed): updateAuthorityPeer on a Monster with no eligible player,
\* whose current authority peer (if any) no longer has it loaded, sets
\* authorityPeerId to null and returns false.
C8_AsClaimed ==
    (AfterUpdateOnMonster /\ NoEligiblePlayer
        /\ ~ConnectedAndLoaded(last.pre.authorityPeerId)) =>
        /\ authorityPeerId = Null
        /\ last.ret = FALSE

\* C9 (as claimed): after the call authorityPeerId is null or a peer connected
\* to the scene that has the entity loaded.
C9_AsClaimed ==
    AfterUpdateOnMonster =>
        \/ authorityPeerId = Null
        \/ ConnectedAndLoaded(authorityPeerId)

\* C10 (as amended): updateAuthorityPeer returns true if and only if it
\* replaced a non-null authorityPeerId by another peer; it returns false when
\* it assigns a peer to an entity that had none and when it changes nothing.
C10_ReturnsTrueOnHandover ==
    (last.op = "updateAuthorityPeer") =>
        (last.ret <=> (last.pre.authorityPeerId # Null
                        /\ authorityPeerId # last.pre.authorityPeerId))

\* C10 (as claimed): updateAuthorityPeer returns true if and only if
\* authorityPeerId is non-null after the call.
C10_AsClaimed ==
    (last.op = "updateAuthorityPeer") => (last.ret <=> authorityPeerId # Null)

\* updateAuthorityPeer has returned true.
C10_Witness ==
    /\ last.op = "updateAuthorityPeer"
    /\ last.ret
    /\ authorityPeerId \in PeerIds
\* The positions in the scene's player list of the eligible players: not
\* flagged noAuthority, with the entity loaded.
EligiblePositions ==
    {i \in 1..Len(ScenePlayers) :
        ScenePlayers[i] \notin noAuthority /\ ScenePlayers[i] \in loaded}

\* updateAuthorityPeer has run on a Monster whose authority peer, if it had
\* one, was not both connected and holding the entity loaded.
AfterUpdateWithoutValidAuthority ==
    AfterUpdateOnMonster /\ ~ConnectedAndLoaded(last.pre.authorityPeerId)

\* C11 (as amended): updateAuthorityPeer on a Monster with exactly one eligible
\* peer and no still-valid current authority sets authorityPeerId to that
\* peer; it returns true when authorityPeerId was non-null before the call and
\* false when it was null.
C11_SingleEligibleAssigned ==
    (AfterUpdateWithoutValidAuthority /\ Cardinality(EligiblePositions) = 1) =>
        /\ \E i \in EligiblePositions : authorityPeerId = ScenePlayers[i]
        /\ last.ret <=> (last.pre.authorityPeerId # Null)

\* C11 (as claimed): in that case the peer is assigned and true is returned,
\* also when authorityPeerId was null before the call.
C11_AsClaimed ==
    (AfterUpdateWithoutValidAuthority /\ Cardinality(EligiblePositions) = 1) =>
        /\ \E i \in EligiblePositions : authorityPeerId = ScenePlayers[i]
        /\ last.ret = TRUE

\* The only eligible peer has been assigned to a Monster that had no authority
\* peer, with an ineligible player connected as well.
C11_Witness ==
    /\ AfterUpdateWithoutValidAuthority
    /\ Cardinality(EligiblePositions) = 1
    /\ last.pre.authorityPeerId = Null
    /\ Len(ScenePlayers) > 1
    /\ authorityPeerId \in PeerIds

\* C12: when updateAuthorityPeer on a Monster has to assign, the peer assigned
\* is the eligible player earliest in the scene's player list: every player
\* before it is flagged noAuthority or has not loaded the entity.  The choice
\* is determined by the list, the flags and the loaded sets.
C12_FirstEligibleInListOrder ==
    (AfterUpdateWithoutValidAuthority /\ EligiblePositions # {}) =>
        \E i \in EligiblePositions :
            /\ authorityPeerId = ScenePlayers[i]
            /\ \A j \in 1..(i - 1) : j \notin EligiblePositions

\* Two players are eligible, the one with the larger id first in the list,
\* and it is the one assigned.
C12_Witness ==
    /\ AfterUpdateWithoutValidAuthority
    /\ Cardinality(EligiblePositions) > 1
    /\ playerList[1] > playerList[2]
    /\ authorityPeerId = playerList[1]

\* C13: updateAuthorityPeer on an entity that is not a Monster leaves
\* authorityPeerId as it was and returns false, with or without a manager.
C13_NonMonsterUntouched ==
    (last.op = "updateAuthorityPeer" /\ entityType # PROT_ENTITY_MONSTER) =>
        /\ authorityPeerId = last.pre.authorityPeerId
        /\ last.ret = FALSE

\* updateAuthorityPeer has run on a non-Monster entity in a scene with an
\* eligible player.
C13_Witness ==
    /\ last.op = "updateAuthorityPeer"
    /\ entityType = PROT_ENTITY_GADGET
    /\ EligiblePositions # {}

\* C14: updateAuthorityPeer on a Monster whose authority peer is still
\* connected and still has the entity loaded leaves authorityPeerId as it was
\* and returns false, also when an eligible player precedes that peer in the
\* player list.
C14_ValidAuthorityKept ==
    (AfterUpdateOnMonster /\ ConnectedAndLoaded(last.pre.authorityPeerId)) =>
        /\ authorityPeerId = last.pre.authorityPeerId
        /\ last.ret = FALSE

\* The authority peer has been kept although an eligible player precedes it
\* in the player list.
C14_Witness ==
    /\ AfterUpdateOnMonster
    /\ ConnectedAndLoaded(last.pre.authorityPeerId)
    /\ Len(playerList) > 1
    /\ authorityPeerId = playerList[2]
    /\ 1 \in EligiblePositions
\* C15: in the Death handling of an entity attached to a manager the
\* LifeStateChange broadcast is dispatched once per Death event, and the removal
\* (VISION_DIE) is requested only when that broadcast has completed, in the
\* step that observes its completion; for an entity with no manager the Death
\* handling broadcasts nothing and requests no removal.
C15_BroadcastBeforeRemoval ==
    /\ removes = delivered
    /\ delivered + Cardinality({t \in Tasks : hd[t] = "broadcast"}) = notifies
    /\ manager => notifies = deathEvents
    /\ ~manager => (notifies = 0 /\ removes = 0)
    /\ (last.op = "deathBroadcastDone") => hd[last.task] = "remove"

\* The broadcast of a Death handling has completed and its removal has just
\* been requested.
C15_Witness ==
    /\ manager
    /\ last.op = "deathBroadcastDone"
    /\ notifies = 1
    /\ delivered = 1
    /\ removes = 1

InitSteps == <<"props", "ability", "abilityDone", "fight">>

\* C16: init and initNew populate the props, then call abilityList.update(),
\* and call fightProps.update() only once abilityList.update() has completed;
\* they complete only after both have completed; if abilityList.update() fails,
\* fightProps.update() is not run and the call fails.
C16_InitOrder ==
    /\ \A t \in Tasks :
          /\ pc[t] = "init_ability" => initLog[t] = SubSeq(InitSteps, 1, 2)
          /\ pc[t] = "init_fight" => initLog[t] = InitSteps
          /\ pc[t] \notin {"init_ability", "init_fight"} => initLog[t] = <<>>
    /\ (last.op \in {"init", "initNew"}) =>
          (pc[last.task] = "init_ability" /\ last.pre.initLog[last.task] = <<>>)
    /\ (last.op = "initDone") =>
          (last.pre.initLog[last.task] = InitSteps /\ pc[last.task] = "idle")
    /\ (last.op = "initFailed") =>
          /\ last.pre.initLog[last.task] = SubSeq(InitSteps, 1, 2)
          /\ pc[last.task] = "idle"

\* One initialisation has failed in abilityList.update() while another has
\* reached fightProps.update().
C16_Witness ==
    /\ last.op = "initFailed"
    /\ \E t \in Tasks : pc[t] = "init_fight"
\* Exports: a detached entity of any type, or of none yet, that is
\* initialised, killed, moved, exported and restored from its exported record.
MoveValues == {Null} \cup 0..MaxTime

\* The calls of this specification are made one after another.
ExportTasks == {t \in Tasks : \A u \in Tasks : t <= u}

InitExport ==
    /\ Constructed
    /\ entityType \in {Undefined} \cup EntityTypes
    /\ manager = FALSE
    /\ maxHp = 0
    /\ playerList = <<>>
    /\ loaded = {}
    /\ noAuthority = {}
    /\ sceneTime = Null
    /\ reliableSeq = Null

NextExport ==
    \/ \E t \in ExportTasks, ud \in UserDatas : InitCall(t, ud)
    \/ \E t \in ExportTasks : InitNewCall(t)
    \/ \E t \in ExportTasks : AbilityUpdateDone(t)
    \/ \E t \in ExportTasks : AbilityUpdateFail(t)
    \/ \E t \in ExportTasks : FightUpdateDone(t)
    \/ \E t \in ExportTasks : FightUpdateFail(t)
    \/ \E t \in ExportTasks : KillCall(t, MaxAttacker, MaxDieType)
    \/ \E t \in ExportTasks : KillReturn(t)
    \/ \E t \in ExportTasks : Restore(t)
    \/ \E v \in PropValues : SetLevel(v)
    \/ \E v \in PropValues : SetExp(v)
    \/ \E v \in PropValues : SetPromoteLevel(v)
    \/ \E st \in MoveValues, seq \in MoveValues : MotionUpdate(st, seq)
    \/ ExportSceneEntityInfoCall
    \/ ExportUserDataCall

SpecExport == InitExport /\ [][NextExport]_vars
PayloadFields == {"avatar", "monster", "npc", "gadget"}

Exported == last.op = "exportSceneEntityInfo"

AttachedPayloads == last.ret.keys \cap PayloadFields

\* C17 (amended): a snapshot of an Avatar, Monster, NPC or Gadget entity has
\* exactly one of the four sub-payload fields, the one of its entityType; a
\* snapshot taken while entityType holds none of the four values has no
\* sub-payload field at all.
C17_PayloadMatchesType ==
    Exported =>
        /\ last.ret.entityType = entityType
        /\ entityType = PROT_ENTITY_AVATAR => AttachedPayloads = {"avatar"}
        /\ entityType = PROT_ENTITY_MONSTER => AttachedPayloads = {"monster"}
        /\ entityType = PROT_ENTITY_NPC => AttachedPayloads = {"npc"}
        /\ entityType = PROT_ENTITY_GADGET => AttachedPayloads = {"gadget"}
        /\ entityType \notin EntityTypes => AttachedPayloads = {}

\* C17 as stated: every snapshot has exactly one sub-payload field, for every
\* value entityType can hold.
C17_AsClaimed == Exported => Cardinality(AttachedPayloads) = 1

C17_Witness ==
    /\ Exported
    /\ entityType = PROT_ENTITY_GADGET
    /\ AttachedPayloads = {"gadget"}
    /\ isAlive(lifeState)

\* C18: an NPC snapshot has no lifeState field, no abilityInfo in its authority
\* block and an empty propList; an Avatar, Monster or Gadget snapshot has the
\* lifeState field with the entity's lifeState, abilityInfo in its authority
\* block and the level pair as its propList.
C18_NpcCarriesNoLifecycle ==
    Exported =>
        /\ entityType = PROT_ENTITY_NPC =>
            /\ "lifeState" \notin last.ret.keys
            /\ "abilityInfo" \notin last.ret.authority.keys
            /\ last.ret.propList = <<>>
        /\ entityType \in EntityTypes \ {PROT_ENTITY_NPC} =>
            /\ "lifeState" \in last.ret.keys
            /\ last.ret.lifeState = lifeState
            /\ "abilityInfo" \in last.ret.authority.keys
            /\ last.ret.propList = <<"PROP_LEVEL">>
        /\ {"aiInfo", "bornPos"} \subseteq last.ret.authority.keys
        /\ last.ret.authority.isAiOpen

C18_Witness ==
    /\ Exported
    /\ entityType = PROT_ENTITY_NPC
    /\ isDead(lifeState)
    /\ "lifeState" \notin last.ret.keys
    /\ "abilityInfo" \notin last.ret.authority.keys
    /\ Len(last.ret.propList) = 0

Restored == last.op = "restore"

\* C19: a fresh entity initialised from an entity's exported record has that
\* entity's lifeState (Alive stays Alive, Dead stays Dead), and its two stores
\* were handed that entity's props and combat-stat snapshots unchanged; init
\* from a record whose lifeState is not a number leaves the entity Alive.
C19_RoundTrip ==
    /\ Restored =>
        /\ lifeState = (IF last.pre.lifeState = Undefined THEN LIFE_ALIVE
                        ELSE last.pre.lifeState)
        /\ propsStore = last.pre.propsStore
        /\ fightStore = last.pre.fightStore
    /\ (last.op \in {"init", "restore"} /\ last.args.v = Undefined) => lifeState = LIFE_ALIVE

C19_Witness ==
    /\ Restored
    /\ last.pre.lifeState = LIFE_DEAD
    /\ lifeState = LIFE_DEAD
    /\ last.pre.propsStore.set["PROP_LEVEL"] = MaxProp
    /\ last.pre.propsStore.base = MaxData
    /\ propsStore = last.pre.propsStore
    /\ Unset(dieType)

\* C20: a snapshot has lastMoveSceneTimeMs exactly when the tracker's
\* sceneTime is not null, and lastMoveReliableSeq exactly when its reliableSeq
\* is not null; a recorded 0 is exported as 0.
C20_LastMoveFields ==
    Exported =>
        /\ "lastMoveSceneTimeMs" \in last.ret.keys <=> sceneTime # Null
        /\ "lastMoveReliableSeq" \in last.ret.keys <=> reliableSeq # Null
        /\ sceneTime # Null => last.ret.lastMoveSceneTimeMs = sceneTime
        /\ reliableSeq # Null => last.ret.lastMoveReliableSeq = reliableSeq

C20_Witness ==
    /\ Exported
    /\ sceneTime = 0
    /\ reliableSeq = Null
    /\ "lastMoveSceneTimeMs" \in last.ret.keys
    /\ last.ret.lastMoveSceneTimeMs = 0
    /\ "lastMoveReliableSeq" \notin last.ret.keys
\* A kill by another call is suspended in its Death handling, at the broadcast
\* or at the removal.
OtherKillSuspended ==
    \E u \in Tasks \ {last.task} :
        pc[u] = "kill_await" /\ hd[u] \in {"broadcast", "remove"}

\* C21: a kill made on a Dead entity while another kill is suspended in its
\* Death handling changes no field (dieType and attackerId stay those of the
\* first kill), raises no Death event, dispatches no notification and requests
\* no removal; a kill made on an Alive entity raises exactly one Death event
\* and dispatches at most one notification; only a kill raises a Death event,
\* and notifications and removal requests never outnumber the Death events.
C21_SecondKillIsNoOp ==
    /\ (last.op = "kill" /\ isDead(last.pre.lifeState) /\ OtherKillSuspended) =>
        /\ FieldsAsBefore
        /\ deathEvents = last.pre.deathEvents
        /\ notifies = last.pre.notifies
        /\ removes = last.pre.removes
        /\ pc[last.task] = "idle"
        /\ hd[last.task] = "none"
    /\ (last.op = "kill" /\ isAlive(last.pre.lifeState)) =>
        /\ deathEvents = last.pre.deathEvents + 1
        /\ notifies <= last.pre.notifies + 1
        /\ removes = last.pre.removes
    /\ last.op # "kill" => deathEvents = last.pre.deathEvents
    /\ removes <= notifies
    /\ notifies <= deathEvents

\* The first kill is suspended at the removal; a second kill, with another
\* attacker and die type, has been made and there is still one Death event,
\* one notification and one removal request.
C21_Witness ==
    /\ last.op = "kill"
    /\ isDead(last.pre.lifeState)
    /\ \E u \in Tasks \ {last.task} : pc[u] = "kill_await" /\ hd[u] = "remove"
    /\ last.args.a # attackerId
    /\ last.args.d # dieType
    /\ deathEvents = 1
    /\ notifies = 1
    /\ removes = 1
\* C22 (as claimed): whenever the removal (VISION_DIE) is requested, which is
\* the step that observes the completion of the broadcast, the entity's
\* lifeState is Dead.
C22_AsClaimed ==
    last.op = "deathBroadcastDone" => isDead(lifeState)
====
